---- MODULE Spec2Model ----
(***************************************************************************)
(* Region shapes of regions/shapes/circle.py: CirclePixelRegion and        *)
(* CircleSkyRegion, their constructors, containment test, frame            *)
(* conversions and patch conversion, over a heap of Python dict objects    *)
(* (meta / visual) whose identity matters for aliasing.                    *)
(***************************************************************************)
EXTENDS Integers, Sequences, FiniteSets, TLC

VARIABLES
    dicts,     \* heap of dict objects: dicts[i] = [items, by]; i is the object identity
    pix,       \* CirclePixelRegion objects that exist: [center, radius, meta, visual]
    sky,       \* CircleSkyRegion objects that exist: [center, radius, meta, visual]
    pixArgs,   \* history: the arguments each pix[i] was constructed with
    skyArgs,   \* history: the arguments each sky[i] was constructed with
    last       \* the last operation performed, its arguments and its outcome

vars == <<dicts, pix, sky, pixArgs, skyArgs, last>>

\* ---------------------------------------------------------------- bounds
MaxRegions == 2    \* region objects alive, of both classes
MaxDicts == 3      \* dict objects on the heap, where constructions are explored with any arguments
MaxCallerDicts == 1 \* dict objects the caller creates itself
MaxGrid == 4       \* points tested for containment have coordinates -1..MaxGrid
MaxRadius == 5     \* pixel radii tested for containment are -1..MaxRadius

\* ---------------------------------------------------------------- values
\* The default of the meta / visual parameters (None); dict identities are 1, 2, ...
None == 0
\* A key that is not present in a dict
Absent == 0

Keys == {"radius", "transform", "color"}
Vals == {1}
EmptyItems == [k \in Keys |-> Absent]
DictItems == [Keys -> Vals \cup {Absent}]

\* bool(d) of a dict is False iff it has no key
IsEmpty(items) == \A k \in Keys : items[k] = Absent

\* not x, for x None or a dict
Falsy(arg, h) == arg = None \/ IsEmpty(h[arg].items)

\* Variant: `x if x is not None else {}`, which keeps an empty dict of the caller
OrNewDictIfNone(arg, h) ==
    IF arg = None
    THEN [heap |-> Append(h, [items |-> EmptyItems, by |-> "ctor"]), ref |-> Len(h) + 1]
    ELSE [heap |-> h, ref |-> arg]

\* `x or {}`: x when x is truthy, otherwise a newly allocated empty dict
OrNewDict(arg, h) ==
    IF Falsy(arg, h)
    THEN [heap |-> Append(h, [items |-> EmptyItems, by |-> "ctor"]), ref |-> Len(h) + 1]
    ELSE [heap |-> h, ref |-> arg]

\* Variant: a constructor that clamps a negative radius to 0
CirclePixelRegionInitClamped(center, radius, meta, visual, h) ==
    LET m == OrNewDict(meta, h)
        v == OrNewDict(visual, m.heap)
    IN  [obj |-> [center |-> center, radius |-> IF radius < 0 THEN 0 ELSE radius,
                  meta |-> m.ref, visual |-> v.ref],
         heap |-> v.heap]

\* CirclePixelRegion.__init__
CirclePixelRegionInit(center, radius, meta, visual, h) ==
    LET m == OrNewDict(meta, h)
        v == OrNewDict(visual, m.heap)
    IN  [obj |-> [center |-> center, radius |-> radius, meta |-> m.ref, visual |-> v.ref],
         heap |-> v.heap]

\* CircleSkyRegion.__init__
CircleSkyRegionInit(center, radius, meta, visual, h) ==
    LET m == OrNewDict(meta, h)
        v == OrNewDict(visual, m.heap)
    IN  [obj |-> [center |-> center, radius |-> radius, meta |-> m.ref, visual |-> v.ref],
         heap |-> v.heap]

\* What is remembered of a constructor call: who called, the radius given,
\* whether meta / visual were falsy (None or an empty dict) at the call, and
\* which dict was given when it was not falsy
CtorArgs(by, radius, meta, visual, h) ==
    [by |-> by, radius |-> radius,
     metaFalsy |-> Falsy(meta, h), visualFalsy |-> Falsy(visual, h),
     meta |-> IF Falsy(meta, h) THEN None ELSE meta,
     visual |-> IF Falsy(visual, h) THEN None ELSE visual]

DictArgs == {None} \cup (1..Len(dicts))

\* ---------------------------------------------------------------- collaborators
\* World coordinate mappings handed to the conversions. A mapping is linear here:
\* it has a celestial frame, a reference point crval (sky), its pixel position
\* crpix and a pixel-per-degree scale.
WCSs ==
    { [frame |-> "galactic", crval |-> <<1, 0>>, crpix |-> <<1, 1>>, scale |-> 10] }

\* wcs.utils._wcs_to_celestial_frame_builtin(mywcs)
WcsToCelestialFrame(mywcs) == mywcs.frame

\* SkyCoord.transform_to(frame): a change of frame moves the longitude origin
FrameOrigin(frame) == IF frame = "icrs" THEN 0 ELSE 1
TransformTo(center, frame) ==
    [frame |-> frame,
     lon |-> center.lon + FrameOrigin(center.frame) - FrameOrigin(frame),
     lat |-> center.lat]

\* mywcs.wcs_world2pix(lon, lat, 0)
WcsWorld2Pix(mywcs, lon, lat) ==
    << mywcs.crpix[1] + mywcs.scale * (lon - mywcs.crval[1]),
       mywcs.crpix[2] + mywcs.scale * (lat - mywcs.crval[2]) >>

\* skycoord_to_pixel_scale_angle(skycoord, wcs) for a world coordinate mapping:
\* the pixel position of skycoord and the local pixel scale there
SkycoordToPixelScaleAngle(skycoord, mywcs) ==
    LET xy == WcsWorld2Pix(mywcs, skycoord.lon, skycoord.lat)
    IN  [xc |-> xy[1], yc |-> xy[2], scale |-> mywcs.scale]

\* Lines 124-128 as written do not use mywcs for the scale: they read
\* mywcs.celestialwcs, the attribute cunit of the module astropy.wcs.wcs, and
\* hand the module astropy.wcs (not mywcs) to skycoord_to_pixel_scale_angle.
\* What these give is decided outside this file: an AttributeError, or some
\* xc, yc, scale; (1, 1, 10) is what the mapping of WCSs has at its own
\* reference point.
ModuleScaleOutcomes ==
    { [ok |-> FALSE, xc |-> 0, yc |-> 0, scale |-> 0] } \cup
    { [ok |-> TRUE, xc |-> 1, yc |-> 1, scale |-> 10], [ok |-> TRUE, xc |-> 0, yc |-> 0, scale |-> 1] }

\* Unit.physical_type
PhysicalType(unit) == IF unit \in {"deg", "arcmin"} THEN "angle" ELSE "dimensionless"

\* Quantity.to('deg').value of an angle (the radii used are whole degrees)
ToDeg(q) == IF q.unit = "arcmin" THEN q.value \div 60 ELSE q.value

Modes == {"local", "global"}
Tolerances == {"None", "0.5"}
MaskModes == {"center", "exact"}

\* ---------------------------------------------------------------- methods
\* The checks at the top of CircleSkyRegion.to_pixel
ModeIsLocal(mode) == mode = "local"
\* Variant: the tolerance check left out
ToleranceIgnored(tolerance) == TRUE
ToleranceIsNone(tolerance) == tolerance = "None"

\* Variant: to_pixel handing the source's meta and visual to the new region
ToPixelResultPropagating(self, pixel_positions, radius_pix, h) ==
    CirclePixelRegionInit(pixel_positions, radius_pix, self.meta, self.visual, h)

\* The CirclePixelRegion that to_pixel constructs at its return
ToPixelResult(self, pixel_positions, radius_pix, h) ==
    CirclePixelRegionInit(pixel_positions, radius_pix, None, None, h)

\* Which position to_pixel gives the new region: (xc, yc)
ToPixelPositions(xpix, ypix, xc, yc) == <<xc, yc>>

\* CircleSkyRegion.to_pixel(mywcs, mode, tolerance); ext is what lines 124-128 give.
\* calls lists the collaborators invoked, in order.
to_pixel(self, mywcs, mode, tolerance, ext, h) ==
    LET fail(err, calls) == [outcome |-> err, calls |-> calls, result |-> <<>>, heap |-> h]
        wcsframe == WcsToCelestialFrame(mywcs)
        center_in_wcsframe == TransformTo(self.center, wcsframe)
        xypix == WcsWorld2Pix(mywcs, center_in_wcsframe.lon, center_in_wcsframe.lat)
        c3 == <<"_wcs_to_celestial_frame_builtin", "transform_to", "wcs_world2pix">>
    IN  IF ~ModeIsLocal(mode) THEN fail("NotImplementedError", <<>>)
        ELSE IF ~ToleranceIsNone(tolerance) THEN fail("NotImplementedError", <<>>)
        ELSE IF PhysicalType(self.radius.unit) = "angle"
        THEN IF ~ext.ok THEN fail("AttributeError", c3)
             ELSE LET radius_pix == ext.scale * ToDeg(self.radius)   \* scale is in pixel / deg
                      pixel_positions == ToPixelPositions(xypix[1], xypix[2], ext.xc, ext.yc)
                      r == ToPixelResult(self, pixel_positions, radius_pix, h)
                  IN  [outcome |-> "ok",
                       calls |-> Append(c3, "skycoord_to_pixel_scale_angle"),
                       result |-> <<r.obj>>, heap |-> r.heap]
        ELSE \* radius_pix = self.radius.value, then line 133 reads xc, yc, never assigned
             fail("NameError", c3)

\* np.hypot(dx, dy) < radius. hypot is sqrt(dx^2 + dy^2); against a whole
\* radius, sqrt(n) < radius exactly when its integer part is < radius.
ISqrt(n) == CHOOSE k \in 0..n : k * k <= n /\ n < (k + 1) * (k + 1)
\* Variant: a closed disk, hypot <= radius
HypotLessOrEqual(dx, dy, radius) ==
    LET n == dx * dx + dy * dy
    IN  ISqrt(n) < radius \/ (ISqrt(n) = radius /\ radius * radius = n)
HypotLess(dx, dy, radius) == ISqrt(dx * dx + dy * dy) < radius

\* CirclePixelRegion.__contains__(pixcoord)
contains(self, pixcoord) ==
    HypotLess(pixcoord[1] - self.center[1], pixcoord[2] - self.center[2], self.radius)

\* ax.get_transform(name)
GetTransform(ax, name) == ax[name]

\* Variant: the visual entries written with update, over the caller's
MergeKwargsVisualOverrides(kwargs, temp, visual) ==
    [k \in Keys |->
        IF temp[k] # Absent THEN temp[k]
        ELSE IF visual[k] # Absent THEN visual[k]
        ELSE kwargs[k]]

\* kwargs.update(temp), then kwargs.setdefault(key, value) for each item of visual
MergeKwargs(kwargs, temp, visual) ==
    [k \in Keys |->
        IF temp[k] # Absent THEN temp[k]
        ELSE IF kwargs[k] # Absent THEN kwargs[k]
        ELSE visual[k]]

\* CircleSkyRegion.to_mpl_patch(ax, **kwargs); h is the heap, for self.visual
to_mpl_patch(self, ax, kwargs, h) ==
    LET val == TransformTo(self.center, "icrs")
        center == <<val.lon, val.lat>>
    IN  IF PhysicalType(self.radius.unit) # "angle"
        THEN [outcome |-> "UnitConversionError", patch |-> <<>>]
        ELSE LET temp == [EmptyItems EXCEPT !["transform"] = GetTransform(ax, "icrs"),
                                            !["radius"] = ToDeg(self.radius)]
             IN  [outcome |-> "ok",
                  patch |-> <<[center |-> center,
                               kwargs |-> MergeKwargs(kwargs, temp, h[self.visual].items)]>>]

\* Variant: to_sky returning the region itself in mode "local"
to_sky_local(self, mywcs, mode, tolerance) ==
    IF mode = "local" /\ tolerance = "None"
    THEN [outcome |-> "ok", result |-> <<self>>]
    ELSE [outcome |-> "NotImplementedError", result |-> <<>>]

\* CirclePixelRegion.to_sky(mywcs, mode, tolerance)
to_sky(self, mywcs, mode, tolerance) ==
    [outcome |-> "NotImplementedError", result |-> <<>>]

\* CirclePixelRegion.to_mask(mode)
to_mask(self, mode) ==
    [outcome |-> "NotImplementedError", result |-> <<>>]

\* ---------------------------------------------------------------- caller actions
PixCenters == {<<0, 0>>}
PixRadii == {-1, 2}
SkyCenters == {[frame |-> "icrs", lon |-> x, lat |-> 0] : x \in {0, 1}}
SkyRadii == {[value |-> 2, unit |-> "deg"], [value |-> 3, unit |-> "pix"]}
MutKeys == {"color"}
ColorItems == [EmptyItems EXCEPT !["color"] = 1]
NewItems == {EmptyItems, ColorItems}

CallerDicts == {d \in 1..Len(dicts) : dicts[d].by = "caller"}

\* last, when the last statement was not a method call on a region
NoCall == [op |-> "none"]

\* d = {...}: the caller creates a dict
NewDict(items) ==
    /\ Cardinality(CallerDicts) < MaxCallerDicts
    /\ dicts' = Append(dicts, [items |-> items, by |-> "caller"])
    /\ last' = NoCall
    /\ UNCHANGED <<pix, sky, pixArgs, skyArgs>>

\* d[k] = v on any dict the caller can reach (its own, or a region's meta / visual)
DictSet(d, k, v) ==
    /\ dicts' = [dicts EXCEPT ![d].items[k] = v]
    /\ last' = NoCall
    /\ UNCHANGED <<pix, sky, pixArgs, skyArgs>>

\* del d[k]
DictDel(d, k) ==
    /\ dicts[d].items[k] # Absent
    /\ dicts' = [dicts EXCEPT ![d].items[k] = Absent]
    /\ last' = NoCall
    /\ UNCHANGED <<pix, sky, pixArgs, skyArgs>>

\* CirclePixelRegion(center, radius, meta, visual) called by the caller
NewPixel(center, radius, meta, visual) ==
    LET r == CirclePixelRegionInit(center, radius, meta, visual, dicts)
    IN  /\ Len(pix) + Len(sky) < MaxRegions
        /\ pix' = Append(pix, r.obj)
        /\ pixArgs' = Append(pixArgs, CtorArgs("caller", radius, meta, visual, dicts))
        /\ dicts' = r.heap
        /\ last' = NoCall
        /\ UNCHANGED <<sky, skyArgs>>

\* CircleSkyRegion(center, radius, meta, visual) called by the caller
NewSky(center, radius, meta, visual) ==
    LET r == CircleSkyRegionInit(center, radius, meta, visual, dicts)
    IN  /\ Len(pix) + Len(sky) < MaxRegions
        /\ sky' = Append(sky, r.obj)
        /\ skyArgs' = Append(skyArgs, CtorArgs("caller", radius, meta, visual, dicts))
        /\ dicts' = r.heap
        /\ last' = NoCall
        /\ UNCHANGED <<pix, pixArgs>>

\* sky[s].to_pixel(mywcs, mode, tolerance)
SkyToPixel(s, mywcs, mode, tolerance, ext) ==
    LET r == to_pixel(sky[s], mywcs, mode, tolerance, ext, dicts)
        made == r.outcome = "ok"
    IN  /\ made => Len(pix) + Len(sky) < MaxRegions
        /\ pix' = IF made THEN Append(pix, r.result[1]) ELSE pix
        /\ pixArgs' = IF made
                      THEN Append(pixArgs, [by |-> "to_pixel", self |-> s,
                                            scale |-> ext.scale, xc |-> ext.xc, yc |-> ext.yc])
                      ELSE pixArgs
        /\ dicts' = r.heap
        /\ last' = [op |-> "to_pixel", self |-> s, wcs |-> mywcs, mode |-> mode,
                    tolerance |-> tolerance, outcome |-> r.outcome, calls |-> r.calls]
        /\ UNCHANGED <<sky, skyArgs>>

\* pix[p].to_sky(mywcs, mode, tolerance)
PixToSky(p, mywcs, mode, tolerance) ==
    LET r == to_sky(pix[p], mywcs, mode, tolerance)
    IN  /\ last' = [op |-> "to_sky", outcome |-> r.outcome, result |-> r.result]
        /\ UNCHANGED <<dicts, pix, sky, pixArgs, skyArgs>>

\* pix[p].to_mask(mode)
PixToMask(p, mode) ==
    LET r == to_mask(pix[p], mode)
    IN  /\ last' = [op |-> "to_mask", outcome |-> r.outcome, result |-> r.result]
        /\ UNCHANGED <<dicts, pix, sky, pixArgs, skyArgs>>

\* p in pix[c]
PixContains(c, p) ==
    /\ last' = [op |-> "contains", self |-> c, point |-> p, result |-> contains(pix[c], p)]
    /\ UNCHANGED <<dicts, pix, sky, pixArgs, skyArgs>>

\* sky[s].to_mpl_patch(ax, **kwargs)
SkyToMplPatch(s, ax, kwargs) ==
    LET r == to_mpl_patch(sky[s], ax, kwargs, dicts)
    IN  /\ last' = [op |-> "to_mpl_patch", self |-> s, ax |-> ax, kwargs |-> kwargs,
                    outcome |-> r.outcome, patch |-> r.patch]
        /\ UNCHANGED <<dicts, pix, sky, pixArgs, skyArgs>>

\* ---------------------------------------------------------------- construction and aliasing
Init ==
    /\ dicts = <<>>
    /\ pix = <<>>
    /\ sky = <<>>
    /\ pixArgs = <<>>
    /\ skyArgs = <<>>
    /\ last = NoCall

\* The heap is explored up to MaxDicts dicts.
Next ==
    \/ \E items \in NewItems : NewDict(items) /\ Len(dicts') <= MaxDicts
    \/ \E d \in 1..Len(dicts), k \in MutKeys, v \in Vals : DictSet(d, k, v)
    \/ \E d \in 1..Len(dicts), k \in MutKeys : DictDel(d, k)
    \/ \E c \in PixCenters, m \in DictArgs, v \in DictArgs :
          NewPixel(c, 2, m, v) /\ Len(dicts') <= MaxDicts
    \/ \E m \in DictArgs, v \in DictArgs :
          /\ NewSky([frame |-> "icrs", lon |-> 0, lat |-> 0], [value |-> 2, unit |-> "deg"], m, v)
          /\ Len(dicts') <= MaxDicts

Spec == Init /\ [][Next]_vars

\* ---------------------------------------------------------------- conversions
\* A sky circle has been constructed, with meta / visual omitted or given as a
\* non-empty dict of the caller; the caller then constructs pixel circles,
\* converts, and mutates the dicts.
InitConvert ==
    \E h0 \in {<<>>, <<[items |-> ColorItems, by |-> "caller"]>>} :
      \E c \in SkyCenters, r \in SkyRadii, m \in {None} \cup (1..Len(h0)), v \in {None} \cup (1..Len(h0)) :
        LET made == CircleSkyRegionInit(c, r, m, v, h0)
        IN  /\ dicts = made.heap
            /\ sky = <<made.obj>>
            /\ skyArgs = <<CtorArgs("caller", r, m, v, h0)>>
            /\ pix = <<>>
            /\ pixArgs = <<>>
            /\ last = NoCall

NextConvert ==
    \/ \E d \in 1..Len(dicts), k \in MutKeys, v \in Vals : DictSet(d, k, v)
    \/ \E d \in 1..Len(dicts), k \in MutKeys : DictDel(d, k)
    \/ \E c \in PixCenters, r \in PixRadii : NewPixel(c, r, None, None)
    \/ \E s \in 1..Len(sky), w \in WCSs, m \in Modes, t \in Tolerances, e \in ModuleScaleOutcomes :
          SkyToPixel(s, w, m, t, e)
    \/ \E p \in 1..Len(pix), w \in WCSs, m \in Modes, t \in Tolerances : PixToSky(p, w, m, t)
    \/ \E p \in 1..Len(pix), m \in MaskModes : PixToMask(p, m)

SpecConvert == InitConvert /\ [][NextConvert]_vars

\* ---------------------------------------------------------------- containment
\* A pixel circle has been constructed; the caller tests points against it.
GridCenters == {<<0, 0>>, <<1, 1>>}
Grid == {<<x, y>> : x \in -1..MaxGrid, y \in -1..MaxGrid}

InitContains ==
    \E c \in GridCenters, r \in -1..MaxRadius :
        LET made == CirclePixelRegionInit(c, r, None, None, <<>>)
        IN  /\ dicts = made.heap
            /\ pix = <<made.obj>>
            /\ pixArgs = <<CtorArgs("caller", r, None, None, <<>>)>>
            /\ sky = <<>>
            /\ skyArgs = <<>>
            /\ last = NoCall

NextContains == \E c \in 1..Len(pix), p \in Grid : PixContains(c, p)

SpecContains == InitContains /\ [][NextContains]_vars

\* ---------------------------------------------------------------- patches
\* A sky circle has been constructed with some visual dict; the caller asks
\* for its patch with some keyword arguments.
Axes == {[icrs |-> 7]}
KwVals == {5}
Kwargs == [Keys -> KwVals \cup {Absent}]
PatchRadii == {[value |-> 2, unit |-> "deg"], [value |-> 180, unit |-> "arcmin"],
               [value |-> 3, unit |-> "pix"]}

InitPatch ==
    \E items \in DictItems, c \in SkyCenters, r \in PatchRadii :
        LET h0 == <<[items |-> items, by |-> "caller"]>>
            made == CircleSkyRegionInit(c, r, None, 1, h0)
        IN  /\ dicts = made.heap
            /\ sky = <<made.obj>>
            /\ skyArgs = <<CtorArgs("caller", r, None, 1, h0)>>
            /\ pix = <<>>
            /\ pixArgs = <<>>
            /\ last = NoCall

NextPatch == \E s \in 1..Len(sky), ax \in Axes, kw \in Kwargs : SkyToMplPatch(s, ax, kw)

SpecPatch == InitPatch /\ [][NextPatch]_vars

\* ---------------------------------------------------------------- shared notions
\* The meta / visual attributes of the regions that exist
AllFields ==
    { [cls |-> "pix", i |-> i, f |-> f] : i \in 1..Len(pix), f \in {"meta", "visual"} } \cup
    { [cls |-> "sky", i |-> i, f |-> f] : i \in 1..Len(sky), f \in {"meta", "visual"} }
Ref(x) == IF x.cls = "pix" THEN pix[x.i][x.f] ELSE sky[x.i][x.f]
ArgsOf(x) == IF x.cls = "pix" THEN pixArgs[x.i] ELSE skyArgs[x.i]
\* the attribute was constructed from an omitted, None or empty argument
FalsyIn(args, f) ==
    IF args.by = "to_pixel" THEN TRUE
    ELSE IF f = "meta" THEN args.metaFalsy ELSE args.visualFalsy
WasFalsy(x) == FalsyIn(ArgsOf(x), x.f)
FalsyFields == {x \in AllFields : WasFalsy(x)}
Changed(d) == d \in 1..Len(dicts) /\ dicts'[d] # dicts[d]
SameObjects == pix' = pix /\ sky' = sky

\* The last call was sky[last.self].to_pixel(...) and it returned pix[Len(pix)]
ToPixelReturned == last.op = "to_pixel" /\ last.outcome = "ok"
ToPixelSource == sky[last.self]
ToPixelCenterInFrame == TransformTo(ToPixelSource.center, WcsToCelestialFrame(last.wcs))

\* ---------------------------------------------------------------- claims
\* C2: to_pixel with a mode other than "local", or with a tolerance other than
\* None, ends in NotImplementedError before any collaborator of the wcs is
\* called; no pixel circle is made and no region or dict changes.
C2_ToPixelRejects ==
    [][ (last'.op = "to_pixel" /\ (last'.mode # "local" \/ last'.tolerance # "None"))
        => /\ last'.outcome = "NotImplementedError"
           /\ last'.calls = <<>>
           /\ pix' = pix /\ sky' = sky /\ dicts' = dicts ]_vars
C2_Witness ==
    /\ last.op = "to_pixel" /\ last.mode = "local" /\ last.tolerance = "0.5"
    /\ last.outcome = "NotImplementedError"

\* C3 (as claimed): after a successful to_pixel of a circle with an angular
\* radius, the pixel radius is the angular radius times the local scale of the
\* supplied wcs at the circle's own center.
C3_RadiusIsScaleAtCenter ==
    (ToPixelReturned /\ PhysicalType(ToPixelSource.radius.unit) = "angle")
    => pix[Len(pix)].radius =
          ToDeg(ToPixelSource.radius)
          * SkycoordToPixelScaleAngle(ToPixelCenterInFrame, last.wcs).scale

\* C4 (as claimed): after a successful to_pixel the center of the pixel circle
\* is the projection (xpix, ypix) of the sky center.
C4_CenterIsProjected ==
    ToPixelReturned
    => pix[Len(pix)].center =
          WcsWorld2Pix(last.wcs, ToPixelCenterInFrame.lon, ToPixelCenterInFrame.lat)

\* C5 (as claimed): to_pixel in mode "local" with tolerance None on a circle
\* whose radius is not an angle returns a pixel circle with that radius value.
C5_PixelRadiusPassesThrough ==
    (/\ last.op = "to_pixel" /\ last.mode = "local" /\ last.tolerance = "None"
     /\ PhysicalType(ToPixelSource.radius.unit) # "angle")
    => /\ last.outcome = "ok"
       /\ pix[Len(pix)].radius = ToPixelSource.radius.value

\* C7: to_sky and to_mask always end in NotImplementedError, return nothing,
\* and leave every region and dict as it was.
C7_NotImplemented ==
    [][ last'.op \in {"to_sky", "to_mask"}
        => /\ last'.outcome = "NotImplementedError"
           /\ last'.result = <<>>
           /\ pix' = pix /\ sky' = sky /\ dicts' = dicts ]_vars
C7_Witness ==
    last.op = "to_sky" /\ last.outcome = "NotImplementedError" /\ Len(pix) > 0

\* C8: the pixel circle a successful to_pixel returns has new, empty meta and
\* visual dicts, whatever the source holds; the call changes neither the source
\* nor any existing dict; the result never shares a dict with its source, and
\* a change to a dict of one is not a change to a dict of the other.
C8_ResultIndependent ==
    [][ /\ (Len(pix') = Len(pix) + 1 /\ pixArgs'[Len(pix')].by = "to_pixel")
           => LET new == pix'[Len(pix')]
              IN  /\ new.meta \notin 1..Len(dicts) /\ new.visual \notin 1..Len(dicts)
                  /\ new.meta # new.visual
                  /\ IsEmpty(dicts'[new.meta].items) /\ IsEmpty(dicts'[new.visual].items)
                  /\ sky' = sky
                  /\ \A d \in 1..Len(dicts) : dicts'[d] = dicts[d]
        /\ \A p \in 1..Len(pix') :
              pixArgs'[p].by = "to_pixel"
              => LET src == sky'[pixArgs'[p].self]
                 IN  {pix'[p].meta, pix'[p].visual} \cap {src.meta, src.visual} = {}
        /\ \A p \in 1..Len(pix) :
              (pixArgs[p].by = "to_pixel" /\ SameObjects)
              => LET src == sky[pixArgs[p].self]
                 IN  /\ (Changed(pix[p].meta) \/ Changed(pix[p].visual))
                        => ~Changed(src.meta) /\ ~Changed(src.visual)
                     /\ (Changed(src.meta) \/ Changed(src.visual))
                        => ~Changed(pix[p].meta) /\ ~Changed(pix[p].visual) ]_vars
C8_Witness ==
    /\ ToPixelReturned
    /\ ~IsEmpty(dicts[ToPixelSource.meta].items)
    /\ ~IsEmpty(dicts[ToPixelSource.visual].items)
    /\ IsEmpty(dicts[pix[Len(pix)].meta].items)
    /\ IsEmpty(dicts[pix[Len(pix)].visual].items)

\* C9 (as claimed): every pixel circle has radius >= 0.
C9_RadiusNonNegative == \A p \in 1..Len(pix) : pix[p].radius >= 0

\* C9 (amended): a pixel circle's radius is what its constructor was given,
\* unvalidated: the caller's radius argument for a circle the caller
\* constructed (so it is >= 0 exactly when that argument is), and scale times
\* the angular radius value for a circle made by to_pixel.
C9_RadiusIsArgument ==
    \A p \in 1..Len(pix) :
        /\ pixArgs[p].by = "caller"
           => /\ pix[p].radius = pixArgs[p].radius
              /\ (pix[p].radius >= 0 <=> pixArgs[p].radius >= 0)
        /\ pixArgs[p].by = "to_pixel"
           => pix[p].radius = pixArgs[p].scale * ToDeg(sky[pixArgs[p].self].radius)
C9_Witness ==
    \E p \in 1..Len(pix) : pixArgs[p].by = "caller" /\ pixArgs[p].radius = 2 /\ pix[p].radius = 2

\* What holds of the meta / visual attributes in every state
C10_State ==
    \A x \in AllFields :
        IF WasFalsy(x)
        THEN /\ dicts[Ref(x)].by = "ctor"
             /\ \A y \in FalsyFields \ {x} : Ref(y) # Ref(x)
        ELSE /\ Ref(x) = ArgsOf(x)[x.f]
             /\ ArgsOf(x)[x.f] # None

\* C10: an attribute constructed from an omitted, None or empty argument is a
\* dict the constructor allocated, new and empty at that moment, never the
\* caller's and never the dict of another such attribute, and a change to it
\* changes no other such attribute; an attribute constructed from a non-empty
\* dict is that very dict.
C10_FreshOrByReference ==
    /\ []C10_State
    /\ [][ /\ Len(pix') = Len(pix) + 1
              => \A f \in {"meta", "visual"} :
                    IF FalsyIn(pixArgs'[Len(pix')], f)
                    THEN /\ pix'[Len(pix')][f] \notin 1..Len(dicts)
                         /\ IsEmpty(dicts'[pix'[Len(pix')][f]].items)
                    ELSE pix'[Len(pix')][f] \in 1..Len(dicts)
           /\ Len(sky') = Len(sky) + 1
              => \A f \in {"meta", "visual"} :
                    IF FalsyIn(skyArgs'[Len(sky')], f)
                    THEN /\ sky'[Len(sky')][f] \notin 1..Len(dicts)
                         /\ IsEmpty(dicts'[sky'[Len(sky')][f]].items)
                    ELSE sky'[Len(sky')][f] \in 1..Len(dicts)
           /\ SameObjects
              => \A x \in FalsyFields : \A y \in FalsyFields \ {x} :
                    Changed(Ref(x)) => ~Changed(Ref(y)) ]_vars
C10_Witness ==
    \E x \in FalsyFields, y \in FalsyFields, z \in AllFields :
        /\ <<x.cls, x.i>> # <<y.cls, y.i>>
        /\ ~IsEmpty(dicts[Ref(x)].items) /\ IsEmpty(dicts[Ref(y)].items)
        /\ ~WasFalsy(z) /\ dicts[Ref(z)].by = "caller"

\* The circle and the point of the last containment test
C1_Point == last.point
C1_Circle == pix[last.self]
C1_DistSq ==
    (C1_Point[1] - C1_Circle.center[1]) * (C1_Point[1] - C1_Circle.center[1])
    + (C1_Point[2] - C1_Circle.center[2]) * (C1_Point[2] - C1_Circle.center[2])

\* C1: p in c is true exactly when the distance from p to the center is
\* strictly less than the radius (squared distance below the squared radius,
\* for a positive radius); a point at distance exactly the radius is outside,
\* as (3, 4) is for center (0, 0) and radius 5, and radius 0 contains nothing.
C1_ContainsIsOpenDisk ==
    last.op = "contains"
    => /\ last.result <=> (C1_Circle.radius > 0
                           /\ C1_DistSq < C1_Circle.radius * C1_Circle.radius)
       /\ C1_Circle.radius >= 0 /\ C1_DistSq = C1_Circle.radius * C1_Circle.radius
          => ~last.result
       /\ C1_Circle.radius = 0 => ~last.result
C1_Witness ==
    /\ last.op = "contains"
    /\ C1_Circle.center = <<0, 0>> /\ C1_Circle.radius = 5 /\ C1_Point = <<3, 4>>
    /\ last.result = FALSE

\* The visual entries of the circle and the values to_mpl_patch computes
C6_Visual == dicts[sky[last.self].visual].items
C6_Computed ==
    [EmptyItems EXCEPT !["transform"] = GetTransform(last.ax, "icrs"),
                       !["radius"] = ToDeg(sky[last.self].radius)]

\* C6 (as claimed): in the keyword arguments of the patch, every key the
\* caller supplied has the caller's value, radius and transform included; a
\* key the caller did not supply has the visual entry when there is one; the
\* values the method computes are used only for keys neither supplies.
C6_CallerFirst ==
    (last.op = "to_mpl_patch" /\ last.outcome = "ok")
    => \A k \in Keys :
          last.patch[1].kwargs[k] =
              IF last.kwargs[k] # Absent THEN last.kwargs[k]
              ELSE IF C6_Visual[k] # Absent THEN C6_Visual[k]
              ELSE C6_Computed[k]

\* C6 (amended): radius and transform always get the values the method
\* computes, whatever the caller or visual supply for them; every other key
\* has the caller's value when the caller supplied it, otherwise the visual
\* entry when there is one, otherwise it is not passed.
C6_ComputedThenCallerThenVisual ==
    (last.op = "to_mpl_patch" /\ last.outcome = "ok")
    => \A k \in Keys :
          last.patch[1].kwargs[k] =
              IF k \in {"radius", "transform"} THEN C6_Computed[k]
              ELSE IF last.kwargs[k] # Absent THEN last.kwargs[k]
              ELSE C6_Visual[k]
C6_Witness ==
    /\ last.op = "to_mpl_patch" /\ last.outcome = "ok"
    /\ last.kwargs["radius"] # Absent /\ last.kwargs["color"] # Absent
    /\ C6_Visual["color"] # Absent /\ C6_Visual["transform"] # Absent
    /\ last.patch[1].kwargs["color"] = last.kwargs["color"]
    /\ last.patch[1].kwargs["radius"] = 2
====
